---- MODULE Spec2Model ----
(***************************************************************************)
(* Task lifecycle and reminder scheduling of the meeting summarizer:       *)
(* TaskManager (task_manager.py) over the MongoDB 'tasks' collection       *)
(* (db.py) and the APScheduler job store.                                  *)
(*                                                                         *)
(* Strings are sequences of characters, deadline strings included; <<>>   *)
(* is the empty string and, for the optional fields, also None (both are   *)
(* falsy).                                                                 *)
(* calls holds, per thread, the TaskManager call the thread is in and how  *)
(* far it has got; the calls made one at a time leave it alone.            *)
(* A datetime is a count of ticks, TicksPerDay ticks to the day, counted   *)
(* from the proleptic Gregorian ordinal as datetime.toordinal does.        *)
(***************************************************************************)
EXTENDS Integers, Sequences, FiniteSets, TLC

VARIABLES tasks, nextId, jobs, now, cap, calls

vars == <<tasks, nextId, jobs, now, cap, calls>>

(* ------------------------------ bounds --------------------------------- *)

MaxTasks == 1

MaxNow == 2

TicksPerDay == 2

MaxBatch == 2

(* --------------------------- program constants ------------------------- *)

DefaultDays == 7

\* the seconds a run may be late, which job_defaults leaves at the
\* scheduler's default
misfire_grace_time == 1

StartDate == <<2024, 1, 15>>

TBD == <<"T", "B", "D">>

Missing == <<"<missing>">>

(* ------------------------------ calendar ------------------------------- *)

IsLeap(y) == (y % 4 = 0) /\ ((y % 100 # 0) \/ (y % 400 = 0))

DaysInMonth(y, m) ==
    IF m = 2 THEN (IF IsLeap(y) THEN 29 ELSE 28)
    ELSE IF m \in {4, 6, 9, 11} THEN 30 ELSE 31

DaysBeforeYear(y) ==
    (y - 1) * 365 + ((y - 1) \div 4) - ((y - 1) \div 100) + ((y - 1) \div 400)

\* the days of the year before the first day of month m
DaysBeforeMonth(y, m) ==
    <<0, 31, 59, 90, 120, 151, 181, 212, 243, 273, 304, 334>>[m]
        + (IF m > 2 /\ IsLeap(y) THEN 1 ELSE 0)

ymd2ord(s) == DaysBeforeYear(s[1]) + DaysBeforeMonth(s[1], s[2]) + s[3]

Years == 2023..2025

ord2ymd(n) ==
    LET y == CHOOSE yy \in Years :
                 DaysBeforeYear(yy) < n /\ n <= DaysBeforeYear(yy + 1)
        r == n - DaysBeforeYear(y)
        m == CHOOSE mm \in 1..12 :
                 DaysBeforeMonth(y, mm) < r
                     /\ r <= DaysBeforeMonth(y, mm) + DaysInMonth(y, mm)
    IN  <<y, m, r - DaysBeforeMonth(y, m)>>

Digits == <<"0", "1", "2", "3", "4", "5", "6", "7", "8", "9">>

IsDigit(c) == \E i \in 1..10 : Digits[i] = c

DigitVal(c) == (CHOOSE i \in 1..10 : Digits[i] = c) - 1

AllDigits(s) == \A i \in 1..Len(s) : IsDigit(s[i])

\* int(s) of a string of digits
RECURSIVE int(_)
int(s) ==
    IF s = <<>> THEN 0
    ELSE int(SubSeq(s, 1, Len(s) - 1)) * 10 + DigitVal(s[Len(s)])

\* str(n) of a natural number
RECURSIVE str(_)
str(n) ==
    IF n < 10 THEN <<Digits[n + 1]>>
    ELSE str(n \div 10) \o <<Digits[(n % 10) + 1]>>

\* the zero padding of the %Y, %m and %d output fields
RECURSIVE zfill(_, _)
zfill(s, width) == IF Len(s) >= width THEN s ELSE zfill(<<"0">> \o s, width)

\* s.split('-')
RECURSIVE split(_)
split(s) ==
    IF \A i \in 1..Len(s) : s[i] # "-" THEN <<s>>
    ELSE LET i == CHOOSE k \in 1..Len(s) :
                      s[k] = "-" /\ \A h \in 1..(k - 1) : s[h] # "-"
         IN  <<SubSeq(s, 1, i - 1)>> \o split(SubSeq(s, i + 1, Len(s)))

\* the year, month and day numbers of a string the format matches
Fields(s) ==
    LET f == split(s)
    IN  <<int(f[1]), int(f[2]), int(f[3])>>

\* the format '%Y-%m-%d' matches all of s: four digits, then one or two
\* digits for a month 1..12, then one or two digits for a day 1..31
MatchesFormat(s) ==
    LET f == split(s)
    IN  /\ Len(f) = 3
        /\ Len(f[1]) = 4 /\ AllDigits(f[1])
        /\ Len(f[2]) \in 1..2 /\ AllDigits(f[2]) /\ int(f[2]) \in 1..12
        /\ Len(f[3]) \in 1..2 /\ AllDigits(f[3]) /\ int(f[3]) \in 1..31

\* datetime.strptime(s, '%Y-%m-%d') raises ValueError unless the format
\* matches and the numbers are a calendar date
ParsesAsDate(s) ==
    /\ MatchesFormat(s)
    /\ LET ymd == Fields(s)
       IN  ymd[1] >= 1 /\ ymd[3] <= DaysInMonth(ymd[1], ymd[2])

\* the parsed datetime, at midnight
strptime(s) == ymd2ord(Fields(s)) * TicksPerDay

\* dt.strftime('%Y-%m-%d')
strftime(dt) ==
    LET ymd == ord2ymd(dt \div TicksPerDay)
    IN  zfill(str(ymd[1]), 4) \o <<"-">> \o zfill(str(ymd[2]), 2)
            \o <<"-">> \o zfill(str(ymd[3]), 2)

\* the characters in use, in code point order
Alphabet ==
    <<" ", "-", "0", "1", "2", "3", "4", "5", "6", "7", "8", "9",
      "A", "B", "D", "G", "H", "I", "P", "S", "T",
      "a", "b", "c", "d", "e", "g", "h", "i", "k", "l", "m", "n", "o", "p",
      "r", "s", "t", "u", "w", "x", "y">>

ord(c) == CHOOSE i \in 1..Len(Alphabet) : Alphabet[i] = c

\* a < b for two strings, as Python and MongoDB compare them
RECURSIVE StrLess(_, _)
StrLess(a, b) ==
    IF b = <<>> THEN FALSE
    ELSE IF a = <<>> THEN TRUE
    ELSE IF Head(a) # Head(b) THEN ord(Head(a)) < ord(Head(b))
    ELSE StrLess(Tail(a), Tail(b))

StrLeq(a, b) == a = b \/ StrLess(a, b)

\* dt.date(), as an ordinal
date(dt) == dt \div TicksPerDay

timedelta(days) == days * TicksPerDay

\* the datetime of the first instant of the run
Epoch == ymd2ord(StartDate) * TicksPerDay

utcnow(t) == Epoch + t

(* ------------------------------- strings ------------------------------- *)

IsSpace(c) == c = " "

RECURSIVE lstrip(_)
lstrip(s) == IF s # <<>> /\ IsSpace(Head(s)) THEN lstrip(Tail(s)) ELSE s

RECURSIVE rstrip(_)
rstrip(s) ==
    IF s # <<>> /\ IsSpace(s[Len(s)]) THEN rstrip(SubSeq(s, 1, Len(s) - 1))
    ELSE s

\* mutant: the text is used as it came
strip_forgotten(s) == s

strip(s) == rstrip(lstrip(s))

UpperCase == <<"A", "B", "D", "G", "H", "I", "P", "S", "T">>

LowerCase == <<"a", "b", "d", "g", "h", "i", "p", "s", "t">>

\* s.lower()
lower(s) ==
    [i \in 1..Len(s) |->
        IF \E k \in 1..Len(UpperCase) : UpperCase[k] = s[i]
        THEN LowerCase[CHOOSE k \in 1..Len(UpperCase) : UpperCase[k] = s[i]]
        ELSE s[i]]

\* dict.get(key, default): the default only when the key is absent
Get(v, default) == IF v = Missing THEN default ELSE v

\* dict.get(key) on a record: None (<<>>) or the default when the key is absent
Field(d, key, default) == IF key \in DOMAIN d THEN d[key] ELSE default

\* Python truthiness of an optional string: None and '' are falsy
Truthy(s) == s # <<>>

(* -------------------------- deadline heuristic ------------------------ *)

\* sub in s
contains(s, sub) ==
    \E i \in 1..(Len(s) - Len(sub) + 1) :
        SubSeq(s, i, i + Len(sub) - 1) = sub

urgent_keywords ==
    <<<<"u", "r", "g", "e", "n", "t">>,
      <<"a", "s", "a", "p">>,
      <<"i", "m", "m", "e", "d", "i", "a", "t", "e", "l", "y">>,
      <<"t", "o", "d", "a", "y">>,
      <<"t", "o", "m", "o", "r", "r", "o", "w">>,
      <<"d", "e", "a", "d", "l", "i", "n", "e">>,
      <<"c", "r", "i", "t", "i", "c", "a", "l">>>>

medium_keywords ==
    <<<<"n", "e", "x", "t", " ", "w", "e", "e", "k">>,
      <<"s", "o", "o", "n">>,
      <<"p", "r", "i", "o", "r", "i", "t", "y">>,
      <<"i", "m", "p", "o", "r", "t", "a", "n", "t">>>>

\* mutant: the medium keywords are looked for first
suggest_deadline_medium_first(task_text, t) ==
    LET task_lower == lower(task_text)
        days_ahead ==
            IF \E k \in 1..Len(medium_keywords) :
                   contains(task_lower, medium_keywords[k])
            THEN 3
            ELSE IF \E k \in 1..Len(urgent_keywords) :
                        contains(task_lower, urgent_keywords[k])
            THEN 1
            ELSE 7
    IN  strftime(utcnow(t) + timedelta(days_ahead))

\* _suggest_deadline
suggest_deadline(task_text, t) ==
    LET task_lower == lower(task_text)
        days_ahead ==
            IF \E k \in 1..Len(urgent_keywords) :
                   contains(task_lower, urgent_keywords[k])
            THEN 1
            ELSE IF \E k \in 1..Len(medium_keywords) :
                        contains(task_lower, medium_keywords[k])
            THEN 3
            ELSE 7
    IN  strftime(utcnow(t) + timedelta(days_ahead))

\* the enhancement of the extracted action items with suggested deadlines
enhanced_items(action_items, t) ==
    [i \in 1..Len(action_items) |->
        [task |-> action_items[i].task,
         assignee |-> action_items[i].assignee,
         priority |-> action_items[i].priority,
         suggested_deadline |->
             suggest_deadline(Get(action_items[i].task, <<>>), t),
         up |-> action_items[i].up]]

(* ------------------------------- inputs -------------------------------- *)

ValidText == <<" ", "a", " ">>

BlankTexts == {Missing, <<>>, <<" ">>}

\* '2024-01-14', the day before the start date
Yesterday == <<"2", "0", "2", "4", "-", "0", "1", "-", "1", "4">>

\* '2024-01-17'
InTwoDays == <<"2", "0", "2", "4", "-", "0", "1", "-", "1", "7">>

\* '2024-1-15', which strptime reads as 15 January
Unpadded == <<"2", "0", "2", "4", "-", "1", "-", "1", "5">>

\* '2024-02-30', which strptime rejects
NoDate == <<"2", "0", "2", "4", "-", "0", "2", "-", "3", "0">>

Deadlines == {Yesterday, InTwoDays, Unpadded, NoDate}

Suggested == InTwoDays

Medium == <<"m", "e", "d", "i", "u", "m">>

\* 'HIGH' and 'urgent'
Priorities == {<<"H", "I", "G", "H">>, <<"u", "r", "g", "e", "n", "t">>}

TaskData ==
    [task : {ValidText}, assignee : {Missing}, priority : {Missing},
     suggested_deadline : {<<>>, Suggested},
     actual_deadline : {<<>>} \cup Deadlines]
    \cup [task : {ValidText}, assignee : {Missing}, priority : Priorities,
          suggested_deadline : {<<>>}, actual_deadline : {Yesterday}]
    \cup [task : BlankTexts, assignee : {<<"b", " ">>}, priority : {Missing},
          suggested_deadline : {<<>>}, actual_deadline : {<<>>}]

\* an action item and whether the store call made for it completes
ActionItems ==
    [task : {ValidText}, assignee : {Missing}, priority : {Missing},
     suggested_deadline : {<<>>, Suggested}, up : {TRUE}]
    \cup [task : {ValidText}, assignee : {Missing},
          priority : {<<"u", "r", "g", "e", "n", "t">>},
          suggested_deadline : {<<>>}, up : {FALSE}]
    \cup [task : {<<" ">>}, assignee : {Missing}, priority : {Missing},
          suggested_deadline : {<<>>}, up : {TRUE}]

\* the sequences over S of length at most k
RECURSIVE SeqsUpTo(_, _)
SeqsUpTo(S, k) ==
    IF k = 0 THEN {<<>>}
    ELSE LET P == SeqsUpTo(S, k - 1)
         IN  P \cup {Append(p, x) : p \in P, x \in S}

BatchInputs == SeqsUpTo(ActionItems, MaxBatch)

\* task texts as the extraction returns them
Asap == <<"A", "S", "A", "P">>

NextWeek == <<"n", "e", "x", "t", " ", "w", "e", "e", "k">>

AsapNextWeek == <<"A", "S", "A", "P", " ", "n", "e", "x", "t", " ", "w", "e", "e", "k">>

Plain == <<"a">>

MeetingTexts == {Asap, NextWeek, AsapNextWeek, Plain}

\* the action items extracted from one meeting
ExtractedItems ==
    [task : MeetingTexts, assignee : {Missing}, priority : {Missing},
     up : {TRUE}]

\* transcript ids as save_transcript returns them
TranscriptIds == {<<"1">>, <<"2">>}

\* a task id as callers hold it: the string create_task returned ("str"),
\* or the ObjectId read from a document's _id ("oid")
TaskIds == [t : {"str", "oid"}, n : 1..cap]

Patches ==
    [status : {"pending", "archived"}] \cup [actual_deadline : Deadlines]

\* the filters of get_tasks; <<>> is None and {}
Filters ==
    {<<>>, [status |-> "pending"], [priority |-> Medium],
     [status |-> "completed", priority |-> Medium]}

DaysAhead == {1, 7}

\* how the store calls of one update_task can go: up1, update_one completes;
\* fresh, the updated_at stamp differs from the stored one; up2, the read of
\* the reschedule completes
StoreRuns ==
    {[up1 |-> FALSE, fresh |-> TRUE, up2 |-> TRUE],
     [up1 |-> TRUE, fresh |-> FALSE, up2 |-> TRUE],
     [up1 |-> TRUE, fresh |-> TRUE, up2 |-> TRUE],
     [up1 |-> TRUE, fresh |-> TRUE, up2 |-> FALSE]}

\* the same for a status change, which reads nothing back
MarkRuns == {r \in StoreRuns : r.up2}

(* ---------------------------- the job store ---------------------------- *)

JobKey(kind, n) == <<kind, n>>

\* f"reminder_1day_{task_id}" etc.: str() of an ObjectId is the same text as
\* the string id, so both kinds of id give the same keys
JobIds(n) ==
    <<JobKey("reminder_1day", n), JobKey("reminder_deadline", n),
      JobKey("overdue_check", n)>>

\* mutant: the job is added beside the one registered under the key
add_job_beside(js, key, run, args) ==
    js \cup {[id |-> key, run |-> run, args |-> args]}

\* scheduler.add_job(..., args=args, id=key, replace_existing=True)
add_job(js, key, run, args) ==
    {j \in js : j.id # key} \cup {[id |-> key, run |-> run, args |-> args]}

\* scheduler.remove_job(key); JobLookupError for an absent key is swallowed
remove_job(js, key) == {j \in js : j.id # key}

RECURSIVE cancel_from(_, _, _)
cancel_from(js, keys, i) ==
    IF i > Len(keys) THEN js
    ELSE cancel_from(remove_job(js, keys[i]), keys, i + 1)

\* mutant: the overdue check is left out of job_ids
cancel_two_reminders(js, n) == cancel_from(js, SubSeq(JobIds(n), 1, 2), 1)

\* mutant: every job of the scheduler is removed
cancel_all_reminders(js, n) == {}

\* _cancel_task_reminders
cancel_task_reminders(js, n) == cancel_from(js, JobIds(n), 1)

\* mutant: the 1-day reminder is also registered for this very instant
schedule_jobs_at_or_after(js, id, deadline_str, t) ==
    LET deadline == strptime(deadline_str)
        reminder_date == deadline - timedelta(1)
        j1 == IF reminder_date >= utcnow(t)
              THEN add_job(js, JobKey("reminder_1day", id.n), reminder_date,
                           <<id>>)
              ELSE js
        j2 == IF date(deadline) >= date(utcnow(t))
              THEN add_job(j1, JobKey("reminder_deadline", id.n), deadline,
                           <<id>>)
              ELSE j1
    IN  add_job(j2, JobKey("overdue_check", id.n),
                utcnow(t) + timedelta(1), <<>>)

\* the try body of _schedule_task_reminders
schedule_jobs(js, id, deadline_str, t) ==
    LET deadline == strptime(deadline_str)
        reminder_date == deadline - timedelta(1)
        j1 == IF reminder_date > utcnow(t)
              THEN add_job(js, JobKey("reminder_1day", id.n), reminder_date,
                           <<id>>)
              ELSE js
        j2 == IF date(deadline) >= date(utcnow(t))
              THEN add_job(j1, JobKey("reminder_deadline", id.n), deadline,
                           <<id>>)
              ELSE j1
    IN  add_job(j2, JobKey("overdue_check", id.n),
                utcnow(t) + timedelta(1), <<>>)

\* mutant: the ValueError of strptime leaves the method
schedule_task_reminders_raising(js, id, deadline_str, t) ==
    IF ~Truthy(deadline_str)
    THEN [jobs |-> js, error |-> FALSE, raised |-> FALSE]
    ELSE IF ~ParsesAsDate(deadline_str)
    THEN [jobs |-> js, error |-> TRUE, raised |-> TRUE]
    ELSE [jobs |-> schedule_jobs(js, id, deadline_str, t),
          error |-> FALSE, raised |-> FALSE]

\* _schedule_task_reminders: the jobs after the call, whether an error was
\* logged, and whether an exception left the method
schedule_task_reminders(js, id, deadline_str, t) ==
    IF ~Truthy(deadline_str)
    THEN [jobs |-> js, error |-> FALSE, raised |-> FALSE]
    ELSE IF ~ParsesAsDate(deadline_str)
    THEN [jobs |-> js, error |-> TRUE, raised |-> FALSE]
    ELSE [jobs |-> schedule_jobs(js, id, deadline_str, t),
          error |-> FALSE, raised |-> FALSE]

(* ------------------------------ the store ------------------------------ *)

\* collection.find_one({'_id': task_id}): an ObjectId _id never equals a str
Matches(ts, id) == id.t = "oid" /\ id.n \in DOMAIN ts

\* TaskManager.get_task with the store reachable: <<doc>> or <<>> for None
get_task(ts, id) == IF Matches(ts, id) THEN <<ts[id.n]>> ELSE <<>>

\* {'$set': updates}
ApplySet(doc, updates) ==
    [f \in DOMAIN doc |-> IF f \in DOMAIN updates THEN updates[f] ELSE doc[f]]

\* str(result.inserted_id)
StrId(n) == [t |-> "str", n |-> n]

\* a document's _id
Oid(n) == [t |-> "oid", n |-> n]

State(ts, js, nid) == [tasks |-> ts, jobs |-> js, nextId |-> nid]

Here == State(tasks, jobs, nextId)

(* ----------------------------- the handlers ---------------------------- *)

\* mutant: the suggested deadline is looked at first
task_doc_suggested_first(task_data, t) ==
    LET actual == task_data.actual_deadline
        suggested == task_data.suggested_deadline
    IN  [task |-> strip(Get(task_data.task, <<>>)),
         assignee |-> strip(Get(task_data.assignee, TBD)),
         priority |-> lower(Get(task_data.priority, Medium)),
         status |-> "pending",
         transcript_id |-> Field(task_data, "transcript_id", <<>>),
         created_at |-> utcnow(t),
         actual_deadline |->
             IF Truthy(suggested) THEN suggested
             ELSE IF ~Truthy(actual)
             THEN strftime(utcnow(t) + timedelta(DefaultDays))
             ELSE actual]

\* the task_doc built by create_task
task_doc(task_data, t) ==
    LET actual == task_data.actual_deadline
        suggested == task_data.suggested_deadline
    IN  [task |-> strip(Get(task_data.task, <<>>)),
         assignee |-> strip(Get(task_data.assignee, TBD)),
         priority |-> lower(Get(task_data.priority, Medium)),
         status |-> "pending",
         transcript_id |-> Field(task_data, "transcript_id", <<>>),
         created_at |-> utcnow(t),
         actual_deadline |->
             IF ~Truthy(actual) /\ Truthy(suggested) THEN suggested
             ELSE IF ~Truthy(actual)
             THEN strftime(utcnow(t) + timedelta(DefaultDays))
             ELSE actual]

\* one create_task call on the state st; up: the insert completes
create_outcome(st, task_data, up, t) ==
    LET doc == task_doc(task_data, t)
        n == st.nextId
        sch == schedule_task_reminders(st.jobs, StrId(n),
                                       doc.actual_deadline, t)
    IN  IF ~Truthy(doc.task)
        THEN [st |-> st, ret |-> "ValueError", rid |-> <<>>]
        ELSE IF ~up
        THEN [st |-> st, ret |-> "RuntimeError", rid |-> <<>>]
        ELSE [st |-> State([i \in DOMAIN st.tasks \cup {n} |->
                               IF i = n THEN doc ELSE st.tasks[i]],
                           sch.jobs, n + 1),
              ret |-> IF sch.raised THEN "Exception" ELSE "id",
              rid |-> IF sch.raised THEN <<>> ELSE <<StrId(n)>>]

\* mutant: the new id is put in front of the list
batch_item_prepending(acc, item, transcript_id, t) ==
    LET task_data == [task |-> Get(item.task, <<>>),
                      assignee |-> Get(item.assignee, TBD),
                      priority |-> Get(item.priority, Medium),
                      suggested_deadline |-> item.suggested_deadline,
                      transcript_id |-> transcript_id,
                      actual_deadline |-> <<>>]
        out == create_outcome(acc.st, task_data, item.up, t)
    IN  IF out.ret = "id"
        THEN [st |-> out.st, ret |-> out.rid \o acc.ret]
        ELSE [st |-> out.st, ret |-> acc.ret]

\* the loop body of create_tasks_from_action_items: one item, after the
\* items that left the state and the id list as in acc
batch_item(acc, item, transcript_id, t) ==
    LET task_data == [task |-> Get(item.task, <<>>),
                      assignee |-> Get(item.assignee, TBD),
                      priority |-> Get(item.priority, Medium),
                      suggested_deadline |-> item.suggested_deadline,
                      transcript_id |-> transcript_id,
                      actual_deadline |-> <<>>]
        out == create_outcome(acc.st, task_data, item.up, t)
    IN  IF out.ret = "id"
        THEN [st |-> out.st, ret |-> acc.ret \o out.rid]
        ELSE [st |-> out.st, ret |-> acc.ret]

\* the loop of create_tasks_from_action_items over its first k items
RECURSIVE batch_upto(_, _, _, _, _)
batch_upto(st, items, k, transcript_id, t) ==
    IF k = 0 THEN [st |-> st, ret |-> <<>>]
    ELSE batch_item(batch_upto(st, items, k - 1, transcript_id, t), items[k],
                    transcript_id, t)

\* one create_tasks_from_action_items call
batch_outcome(st, items, transcript_id, t) ==
    batch_upto(st, items, Len(items), transcript_id, t)

\* mutant: the registered reminders are not cancelled first
reschedule_without_cancel(ts, js, id, up, t) ==
    LET task == get_task(ts, id)
    IN  IF ~up THEN [jobs |-> js, raised |-> TRUE]
        ELSE IF task # <<>>
        THEN [jobs |-> schedule_task_reminders(js, id,
                                               task[1].actual_deadline, t).jobs,
              raised |-> FALSE]
        ELSE [jobs |-> js, raised |-> FALSE]

\* _reschedule_task_reminders; up: the get_task read completes
reschedule_task_reminders(ts, js, id, up, t) ==
    LET cancelled == cancel_task_reminders(js, id.n)
        task == get_task(ts, id)
    IN  IF ~up THEN [jobs |-> cancelled, raised |-> TRUE]
        ELSE IF task # <<>>
        THEN [jobs |-> schedule_task_reminders(cancelled, id,
                                               task[1].actual_deadline, t).jobs,
              raised |-> FALSE]
        ELSE [jobs |-> cancelled, raised |-> FALSE]

\* mutant: a deadline patch reschedules whether or not a document changed
update_outcome_reschedules_anyway(st, id, updates, up1, up2, fresh, t) ==
    IF ~up1 THEN [st |-> st, ret |-> "False"]
    ELSE IF ~Matches(st.tasks, id)
    THEN [st |-> State(st.tasks,
                       IF "actual_deadline" \in DOMAIN updates
                       THEN reschedule_task_reminders(st.tasks, st.jobs, id,
                                                      up2, t).jobs
                       ELSE st.jobs,
                       st.nextId),
          ret |-> "False"]
    ELSE LET doc == ApplySet(st.tasks[id.n], updates)
             ts == [st.tasks EXCEPT ![id.n] = doc]
             rs == reschedule_task_reminders(ts, st.jobs, id, up2, t)
         IN  IF "actual_deadline" \in DOMAIN updates
             THEN [st |-> State(ts, rs.jobs, st.nextId),
                   ret |-> IF rs.raised THEN "False" ELSE "True"]
             ELSE [st |-> State(ts, st.jobs, st.nextId), ret |-> "True"]

\* mutant: every update that modified the document reschedules
update_outcome_reschedules_always(st, id, updates, up1, up2, fresh, t) ==
    IF ~up1 \/ ~Matches(st.tasks, id) THEN [st |-> st, ret |-> "False"]
    ELSE LET doc == ApplySet(st.tasks[id.n], updates)
             ts == [st.tasks EXCEPT ![id.n] = doc]
             rs == reschedule_task_reminders(ts, st.jobs, id, up2, t)
         IN  IF ~fresh /\ doc = st.tasks[id.n]
             THEN [st |-> st, ret |-> "False"]
             ELSE [st |-> State(ts, rs.jobs, st.nextId),
                   ret |-> IF rs.raised THEN "False" ELSE "True"]

\* one update_task call; up1: update_one completes, up2: the read in the
\* reschedule completes, fresh: the updated_at stamp differs from the stored
update_outcome(st, id, updates, up1, up2, fresh, t) ==
    IF ~up1 \/ ~Matches(st.tasks, id) THEN [st |-> st, ret |-> "False"]
    ELSE LET doc == ApplySet(st.tasks[id.n], updates)
             ts == [st.tasks EXCEPT ![id.n] = doc]
             rs == reschedule_task_reminders(ts, st.jobs, id, up2, t)
         IN  IF ~fresh /\ doc = st.tasks[id.n]
             THEN [st |-> st, ret |-> "False"]
             ELSE IF "actual_deadline" \in DOMAIN updates
             THEN [st |-> State(ts, rs.jobs, st.nextId),
                   ret |-> IF rs.raised THEN "False" ELSE "True"]
             ELSE [st |-> State(ts, st.jobs, st.nextId), ret |-> "True"]

mark_completed_outcome(st, id, up1, fresh, t) ==
    update_outcome(st, id, [status |-> "completed"], up1, TRUE, fresh, t)

mark_in_progress_outcome(st, id, up1, fresh, t) ==
    update_outcome(st, id, [status |-> "in_progress"], up1, TRUE, fresh, t)

\* mutant: True is returned and the document stays
delete_outcome_keeps_document(st, id, up) ==
    LET js == cancel_task_reminders(st.jobs, id.n)
    IN  IF up /\ Matches(st.tasks, id)
        THEN [st |-> State(st.tasks, js, st.nextId), ret |-> "True"]
        ELSE [st |-> State(st.tasks, js, st.nextId), ret |-> "False"]

\* mutant: the reminders are cancelled only once the document is deleted
delete_outcome_cancels_after(st, id, up) ==
    IF up /\ Matches(st.tasks, id)
    THEN [st |-> State([i \in DOMAIN st.tasks \ {id.n} |-> st.tasks[i]],
                       cancel_task_reminders(st.jobs, id.n), st.nextId),
          ret |-> "True"]
    ELSE [st |-> st, ret |-> "False"]

\* one delete_task call; up: delete_one completes
delete_outcome(st, id, up) ==
    LET js == cancel_task_reminders(st.jobs, id.n)
    IN  IF up /\ Matches(st.tasks, id)
        THEN [st |-> State([i \in DOMAIN st.tasks \ {id.n} |-> st.tasks[i]],
                           js, st.nextId),
              ret |-> "True"]
        ELSE [st |-> State(st.tasks, js, st.nextId), ret |-> "False"]

(* ------------------------------ the queries ---------------------------- *)

\* every field of the query equals the document's field
MatchesQuery(doc, query) ==
    \A f \in DOMAIN query : f \in DOMAIN doc /\ doc[f] = query[f]

\* the orders in which a cursor can return the documents S sorted so that
\* <<a, b>> \in InOrder for a before b; documents with equal keys come in
\* any order
Sorted(S, InOrder) ==
    {r \in [1..Cardinality(S) -> S] :
        /\ \A i, j \in 1..Cardinality(S) : i # j => r[i] # r[j]
        /\ \A i, j \in 1..Cardinality(S) :
               i < j => <<r[i], r[j]>> \in InOrder}

\* mutant: the sort direction is 1
get_tasks_ascending(ts, filters) ==
    LET Ascending == {p \in (DOMAIN ts) \X (DOMAIN ts) :
                         ts[p[1]].created_at <= ts[p[2]].created_at}
    IN  Sorted({n \in DOMAIN ts : MatchesQuery(ts[n], filters)}, Ascending)

\* get_tasks: the results find(query).sort('created_at', -1) can give, each
\* a list of documents named by their _id
get_tasks(ts, filters) ==
    LET Descending == {p \in (DOMAIN ts) \X (DOMAIN ts) :
                          ts[p[1]].created_at >= ts[p[2]].created_at}
    IN  Sorted({n \in DOMAIN ts : MatchesQuery(ts[n], filters)}, Descending)

OpenStatuses == {"pending", "in_progress"}

get_overdue_tasks(ts, t) ==
    LET today == strftime(utcnow(t))
        Ascending == {p \in (DOMAIN ts) \X (DOMAIN ts) :
                         StrLeq(ts[p[1]].actual_deadline,
                                ts[p[2]].actual_deadline)}
    IN  Sorted({n \in DOMAIN ts :
                   /\ ts[n].status \in OpenStatuses
                   /\ StrLess(ts[n].actual_deadline, today)}, Ascending)

get_upcoming_tasks(ts, days_ahead, t) ==
    LET today == utcnow(t)
        future_date == strftime(today + timedelta(days_ahead))
        Ascending == {p \in (DOMAIN ts) \X (DOMAIN ts) :
                         StrLeq(ts[p[1]].actual_deadline,
                                ts[p[2]].actual_deadline)}
    IN  Sorted({n \in DOMAIN ts :
                   /\ ts[n].status \in OpenStatuses
                   /\ StrLeq(strftime(today), ts[n].actual_deadline)
                   /\ StrLeq(ts[n].actual_deadline, future_date)}, Ascending)

count_documents(ts, query) ==
    Cardinality({n \in DOMAIN ts : MatchesQuery(ts[n], query)})

get_task_statistics(ts, t) ==
    [total_tasks |-> count_documents(ts, <<>>),
     pending_tasks |-> count_documents(ts, [status |-> "pending"]),
     in_progress_tasks |-> count_documents(ts, [status |-> "in_progress"]),
     completed_tasks |-> count_documents(ts, [status |-> "completed"]),
     overdue_tasks |-> Len(CHOOSE r \in get_overdue_tasks(ts, t) : TRUE),
     upcoming_tasks |->
         Len(CHOOSE r \in get_upcoming_tasks(ts, DefaultDays, t) : TRUE)]

\* mutant: the status is not looked at
send_task_reminder_unchecked(ts, id, up) ==
    LET task == get_task(ts, id)
    IN  [emitted |-> up /\ task # <<>>, tasks |-> ts]

\* _send_task_reminder run by the scheduler with the task_id the job was
\* registered with; up: the get_task read completes
send_task_reminder(ts, id, up) ==
    LET task == get_task(ts, id)
    IN  [emitted |-> up /\ task # <<>> /\ task[1].status \in OpenStatuses,
         tasks |-> ts]

\* DatabaseManager.delete_transcript, as far as the tasks collection goes;
\* up: the store calls complete
delete_transcript_outcome(st, transcript_id, up) ==
    LET kept == {n \in DOMAIN st.tasks :
                     st.tasks[n].transcript_id # transcript_id}
    IN  IF up
        THEN [st |-> State([n \in kept |-> st.tasks[n]], st.jobs, st.nextId),
              ret |-> "True"]
        ELSE [st |-> st, ret |-> "False"]

\* the seconds in a span of ticks
total_seconds(ticks) == ticks * (86400 \div TicksPerDay)

\* the scheduler processes the due job j at t: a date job is done and leaves
\* the job store, an interval job gets its next run time; ran: the callback
\* is called, which it is not for a run time missed by more than the grace
\* time. What the callback does (it reads and logs, and catches what it
\* raises) has no part in it.
process_job(js, j, t) ==
    [jobs |-> IF j.id[1] = "overdue_check"
              THEN (js \ {j}) \cup {[j EXCEPT !.run = j.run + timedelta(1)]}
              ELSE js \ {j},
     ran |-> total_seconds(utcnow(t) - j.run) <= misfire_grace_time]

(* ------------------------------- actions ------------------------------- *)

\* the threads that call into the TaskManager
Threads == {"t1", "t2"}

\* a thread that is in no call
Idle ==
    [op |-> "none", pc |-> "idle", n |-> 0, updates |-> <<>>, task |-> <<>>,
     counts |-> <<>>, ret |-> "none"]

Init ==
    /\ tasks = <<>>
    /\ nextId = 1
    /\ jobs = {}
    /\ now = 0
    /\ cap = MaxTasks
    /\ calls = [th \in Threads |-> Idle]

\* the state after the call that ended as out
Becomes(out) ==
    /\ tasks' = out.st.tasks
    /\ jobs' = out.st.jobs
    /\ nextId' = out.st.nextId
    /\ UNCHANGED <<now, cap, calls>>

\* time passes
tick ==
    /\ now < MaxNow
    /\ now' = now + 1
    /\ UNCHANGED <<tasks, nextId, jobs, cap, calls>>

\* the scheduler processes a due job
job_due ==
    \E j \in jobs :
        /\ j.run <= utcnow(now)
        /\ jobs' = process_job(jobs, j, now).jobs
        /\ UNCHANGED <<tasks, nextId, now, cap, calls>>

create_task ==
    \E task_data \in TaskData, up \in BOOLEAN :
        /\ nextId <= cap
        /\ Becomes(create_outcome(Here, task_data, up, now))

create_tasks_from_action_items ==
    \E items \in BatchInputs :
        /\ nextId + Len(items) <= cap + 1
        /\ Becomes(batch_outcome(Here, items, <<>>, now))

update_task ==
    \E id \in TaskIds, updates \in Patches, r \in StoreRuns :
        Becomes(update_outcome(Here, id, updates, r.up1, r.up2, r.fresh, now))

mark_task_completed ==
    \E id \in TaskIds, r \in MarkRuns :
        Becomes(mark_completed_outcome(Here, id, r.up1, r.fresh, now))

mark_task_in_progress ==
    \E id \in TaskIds, r \in MarkRuns :
        Becomes(mark_in_progress_outcome(Here, id, r.up1, r.fresh, now))

delete_task ==
    \E id \in TaskIds, up \in BOOLEAN :
        Becomes(delete_outcome(Here, id, up))

\* the processing of an uploaded meeting: the extracted action items get
\* their suggested deadlines and become the tasks of the transcript
process_meeting ==
    \E action_items \in SeqsUpTo(ExtractedItems, MaxBatch),
       transcript_id \in TranscriptIds :
        /\ nextId + Len(action_items) <= cap + 1
        /\ Becomes(batch_outcome(Here, enhanced_items(action_items, now),
                                 transcript_id, now))

delete_transcript ==
    \E transcript_id \in TranscriptIds, up \in BOOLEAN :
        Becomes(delete_transcript_outcome(Here, transcript_id, up))

(* The same handlers run by threads, one store or scheduler call at a     *)
(* step (the remove_job calls of one cancel and the add_job calls of one  *)
(* schedule each taken as one step), with the store reachable.            *)

\* the thread th is in no call, or back from one
Free(th) == calls[th].pc \in {"idle", "done"}

\* th goes on as c
Goes(th, c) == calls' = [calls EXCEPT ![th] = c]

\* th returns ret
Returns(th, ret) ==
    Goes(th, [calls[th] EXCEPT !.pc = "done", !.ret = ret])

\* what the threads pass: deadlines that differ in the jobs they call for,
\* and the status changes of mark_task_in_progress and mark_task_completed
ThreadDeadlines == {Yesterday, InTwoDays}

ThreadPatches ==
    [status : {"in_progress", "completed"}]
        \cup [actual_deadline : ThreadDeadlines]

\* a thread calls create_task and builds the task_doc
begin_create_task ==
    \E th \in Threads, actual_deadline \in ThreadDeadlines :
        /\ Free(th)
        /\ nextId <= cap
        /\ \A other \in Threads : calls[other].pc # "save_task"
        /\ Goes(th, [Idle EXCEPT
                         !.op = "create_task", !.pc = "save_task",
                         !.task = <<task_doc([task |-> ValidText,
                                              assignee |-> Missing,
                                              priority |-> Missing,
                                              suggested_deadline |-> <<>>,
                                              actual_deadline |->
                                                  actual_deadline], now)>>])
        /\ UNCHANGED <<tasks, nextId, jobs, now, cap>>

\* save_task inserts the document
create_save_task ==
    \E th \in Threads :
        /\ calls[th].pc = "save_task"
        /\ tasks' = [i \in DOMAIN tasks \cup {nextId} |->
                         IF i = nextId THEN calls[th].task[1] ELSE tasks[i]]
        /\ nextId' = nextId + 1
        /\ Goes(th, [calls[th] EXCEPT !.pc = "schedule", !.n = nextId])
        /\ UNCHANGED <<jobs, now, cap>>

\* _schedule_task_reminders with the id save_task returned
create_schedule ==
    \E th \in Threads :
        /\ calls[th].op = "create_task"
        /\ calls[th].pc = "schedule"
        /\ jobs' = schedule_task_reminders(jobs, StrId(calls[th].n),
                                           calls[th].task[1].actual_deadline,
                                           now).jobs
        /\ Returns(th, "id")
        /\ UNCHANGED <<tasks, nextId, now, cap>>

\* a thread calls update_task, mark_task_in_progress or mark_task_completed
\* with the _id of a document it has read
begin_update_task ==
    \E th \in Threads, n \in 1..cap, updates \in ThreadPatches :
        /\ Free(th)
        /\ n < nextId
        /\ Goes(th, [Idle EXCEPT !.op = "update_task", !.pc = "update_one",
                                 !.n = n, !.updates = updates])
        /\ UNCHANGED <<tasks, nextId, jobs, now, cap>>

\* update_one, with a fresh updated_at
update_one ==
    \E th \in Threads :
        LET c == calls[th]
        IN  /\ c.pc = "update_one"
            /\ IF c.n \in DOMAIN tasks
               THEN /\ tasks' = [tasks EXCEPT
                                    ![c.n] = ApplySet(tasks[c.n], c.updates)]
                    /\ IF "actual_deadline" \in DOMAIN c.updates
                       THEN Goes(th, [c EXCEPT !.pc = "cancel"])
                       ELSE Returns(th, "True")
               ELSE /\ Returns(th, "False")
                    /\ UNCHANGED tasks
            /\ UNCHANGED <<nextId, jobs, now, cap>>

\* _reschedule_task_reminders: the cancel
reschedule_cancel ==
    \E th \in Threads :
        /\ calls[th].op = "update_task"
        /\ calls[th].pc = "cancel"
        /\ jobs' = cancel_task_reminders(jobs, calls[th].n)
        /\ Goes(th, [calls[th] EXCEPT !.pc = "get_task"])
        /\ UNCHANGED <<tasks, nextId, now, cap>>

\* _reschedule_task_reminders: the read of the updated task
reschedule_get_task ==
    \E th \in Threads :
        LET c == calls[th]
            task == get_task(tasks, Oid(c.n))
        IN  /\ c.pc = "get_task"
            /\ IF task # <<>>
               THEN Goes(th, [c EXCEPT !.pc = "schedule", !.task = task])
               ELSE Returns(th, "True")
            /\ UNCHANGED <<tasks, nextId, jobs, now, cap>>

\* _reschedule_task_reminders: the schedule from the task read
reschedule_schedule ==
    \E th \in Threads :
        /\ calls[th].op = "update_task"
        /\ calls[th].pc = "schedule"
        /\ jobs' = schedule_task_reminders(jobs, Oid(calls[th].n),
                                           calls[th].task[1].actual_deadline,
                                           now).jobs
        /\ Returns(th, "True")
        /\ UNCHANGED <<tasks, nextId, now, cap>>

\* a thread calls delete_task with the _id of a document it has read
begin_delete_task ==
    \E th \in Threads, n \in 1..cap :
        /\ Free(th)
        /\ n < nextId
        /\ Goes(th, [Idle EXCEPT !.op = "delete_task", !.pc = "cancel",
                                 !.n = n])
        /\ UNCHANGED <<tasks, nextId, jobs, now, cap>>

\* delete_task: the cancel
delete_cancel ==
    \E th \in Threads :
        /\ calls[th].op = "delete_task"
        /\ calls[th].pc = "cancel"
        /\ jobs' = cancel_task_reminders(jobs, calls[th].n)
        /\ Goes(th, [calls[th] EXCEPT !.pc = "delete_one"])
        /\ UNCHANGED <<tasks, nextId, now, cap>>

\* delete_task: delete_one
delete_one ==
    \E th \in Threads :
        LET c == calls[th]
        IN  /\ c.pc = "delete_one"
            /\ tasks' = [i \in DOMAIN tasks \ {c.n} |-> tasks[i]]
            /\ Returns(th, IF c.n \in DOMAIN tasks THEN "True" ELSE "False")
            /\ UNCHANGED <<nextId, jobs, now, cap>>

\* a thread calls get_task_statistics
begin_get_task_statistics ==
    \E th \in Threads :
        /\ Free(th)
        /\ Goes(th, [Idle EXCEPT !.op = "get_task_statistics",
                                 !.pc = "query"])
        /\ UNCHANGED <<tasks, nextId, jobs, now, cap>>

\* the queries of get_task_statistics in the order they are made
statistics_query(ts, k, t) ==
    CASE k = 1 -> count_documents(ts, <<>>)
      [] k = 2 -> count_documents(ts, [status |-> "pending"])
      [] k = 3 -> count_documents(ts, [status |-> "in_progress"])
      [] k = 4 -> count_documents(ts, [status |-> "completed"])
      [] k = 5 -> Len(CHOOSE r \in get_overdue_tasks(ts, t) : TRUE)
      [] k = 6 -> Len(CHOOSE r \in get_upcoming_tasks(ts, DefaultDays, t) :
                          TRUE)

\* get_task_statistics makes its next query
statistics_step ==
    \E th \in Threads :
        LET c == calls[th]
            counts == Append(c.counts,
                             statistics_query(tasks, Len(c.counts) + 1, now))
        IN  /\ c.op = "get_task_statistics"
            /\ c.pc = "query"
            /\ IF Len(counts) = 6
               THEN Goes(th, [c EXCEPT !.counts = counts, !.pc = "done",
                                       !.ret = "stats"])
               ELSE Goes(th, [c EXCEPT !.counts = counts])
            /\ UNCHANGED <<tasks, nextId, jobs, now, cap>>

\* the single-call handlers; a batch is a run of create_task calls at one
\* instant, so it reaches no state these do not reach
Next ==
    \/ tick
    \/ job_due
    \/ create_task
    \/ update_task
    \/ mark_task_completed
    \/ mark_task_in_progress
    \/ delete_task

Spec == Init /\ [][Next]_vars

\* a store that only batches fill, with room for one full batch
InitBatch ==
    /\ tasks = <<>>
    /\ nextId = 1
    /\ jobs = {}
    /\ now = 0
    /\ cap = MaxBatch
    /\ calls = [th \in Threads |-> Idle]

NextBatch ==
    \/ tick
    \/ job_due
    \/ create_tasks_from_action_items
    \/ delete_task

SpecBatch == InitBatch /\ [][NextBatch]_vars

\* a store of up to MaxBatch tasks under the calls that change documents
NextStore ==
    \/ tick
    \/ create_tasks_from_action_items
    \/ update_task
    \/ mark_task_completed
    \/ mark_task_in_progress
    \/ delete_task

SpecStore == InitBatch /\ [][NextStore]_vars

\* the tasks of processed meetings, up to MaxBatch of them
NextMeeting ==
    \/ tick
    \/ job_due
    \/ process_meeting
    \/ delete_transcript

SpecMeeting == InitBatch /\ [][NextMeeting]_vars

\* the calls of the threads, interleaved
NextThreads ==
    \/ begin_create_task
    \/ create_save_task
    \/ create_schedule
    \/ begin_update_task
    \/ update_one
    \/ reschedule_cancel
    \/ reschedule_get_task
    \/ reschedule_schedule
    \/ begin_delete_task
    \/ delete_cancel
    \/ delete_one
    \/ begin_get_task_statistics
    \/ statistics_step

SpecThreads == Init /\ [][NextThreads]_vars

(* ------------------------------ properties ----------------------------- *)

\* the jobs registered under the keys of task n
JobsOf(js, n) == {j \in js : j.id[2] = n}

\* no two jobs under one key
UniqueKeys(js) == \A j1 \in js, j2 \in js : j1.id = j2.id => j1 = j2

\* a task description that is missing, empty or only whitespace
IsBlank(v) == v = Missing \/ \A i \in 1..Len(v) : v[i] = " "

Rank(status) ==
    IF status = "pending" THEN 1 ELSE IF status = "in_progress" THEN 2 ELSE 3

\* C1: whatever came before, when delete_task(id) returns for a task that
\* existed, the scheduler holds no job under reminder_1day_<id>,
\* reminder_deadline_<id> or overdue_check_<id>.
C1_DeleteLeavesNoJob ==
    \A id \in TaskIds, up \in BOOLEAN :
        id.n \in DOMAIN tasks =>
            \A k \in 1..3 :
                \A j \in delete_outcome(Here, id, up).st.jobs :
                    j.id # JobIds(id.n)[k]

\* a stored task with all three jobs registered, which delete_task removes
C1_Witness ==
    \E id \in TaskIds :
        /\ Matches(tasks, id)
        /\ Cardinality(JobsOf(jobs, id.n)) = 3
        /\ delete_outcome(Here, id, TRUE).ret = "True"
        /\ JobsOf(delete_outcome(Here, id, TRUE).st.jobs, id.n) = {}

\* C2: in every reachable state the scheduler holds at most one job per key
\* (so at most one per task and reminder kind), and scheduling a task's
\* reminders again, for any deadline, on top of the jobs it has replaces
\* the job under each key and adds no second one.
C2_OneJobPerKey ==
    /\ UniqueKeys(jobs)
    /\ \A n \in DOMAIN tasks, d \in Deadlines \cup {Suggested} :
           UniqueKeys(schedule_task_reminders(jobs, Oid(n), d, now).jobs)

\* a task with its three jobs, where scheduling again moves a trigger
C2_Witness ==
    \E n \in DOMAIN tasks, d \in Deadlines :
        /\ Cardinality(JobsOf(jobs, n)) = 3
        /\ schedule_task_reminders(jobs, Oid(n), d, now).jobs # jobs
        /\ Cardinality(JobsOf(schedule_task_reminders(jobs, Oid(n), d,
                                                      now).jobs, n)) = 3

\* C3: a task's status only moves forward: pending to in_progress or
\* completed, in_progress to completed; never back.
C3_StatusOnlyForward ==
    [][\A n \in DOMAIN tasks \cap DOMAIN tasks' :
           Rank(tasks'[n].status) >= Rank(tasks[n].status)]_vars

\* C4: the id create_task returned for a stored task identifies it:
\* get_task with it yields the task, and mark_task_in_progress with it sets
\* the task's status to in_progress.
C4_ReturnedIdIdentifiesTask ==
    \A n \in DOMAIN tasks :
        /\ get_task(tasks, StrId(n)) = <<tasks[n]>>
        /\ mark_in_progress_outcome(Here, StrId(n), TRUE, TRUE, now)
               .st.tasks[n].status = "in_progress"

\* C5: when update_task with actual_deadline in the patch returns True, the
\* task's jobs are exactly the jobs that scheduling from an empty job store
\* with the new deadline registers: none of the old deadline is left.
C5_RescheduleFromScratch ==
    \A id \in TaskIds, d \in Deadlines, r \in StoreRuns :
        LET out == update_outcome(Here, id, [actual_deadline |-> d],
                                  r.up1, r.up2, r.fresh, now)
        IN  out.ret = "True" =>
                JobsOf(out.st.jobs, id.n)
                    = schedule_task_reminders({}, id, d, now).jobs

\* a task with a 1-day reminder whose deadline moves to a date that gets none
C5_Witness ==
    \E id \in TaskIds, d \in Deadlines :
        LET out == update_outcome(Here, id, [actual_deadline |-> d],
                                  TRUE, TRUE, TRUE, now)
        IN  /\ out.ret = "True"
            /\ \E j \in jobs : j.id = JobKey("reminder_1day", id.n)
            /\ \A j \in out.st.jobs : j.id # JobKey("reminder_1day", id.n)
            /\ JobsOf(out.st.jobs, id.n) # {}

\* C6: every stored task's actual_deadline is a valid calendar date.
C6_DeadlineAlwaysValid ==
    \A n \in DOMAIN tasks : ParsesAsDate(tasks[n].actual_deadline)

\* C7: create_task with a missing, empty or whitespace-only description
\* raises the validation error and leaves store and scheduler as they were.
C7_BlankTaskRejected ==
    \A task_data \in TaskData, up \in BOOLEAN :
        IsBlank(task_data.task) =>
            /\ create_outcome(Here, task_data, up, now).ret = "ValueError"
            /\ create_outcome(Here, task_data, up, now).st = Here

\* a store with a task and jobs on which a blank description is rejected
C7_Witness ==
    /\ tasks # <<>>
    /\ jobs # {}
    /\ \E task_data \in TaskData :
           /\ task_data.task = <<" ">>
           /\ create_outcome(Here, task_data, TRUE, now).ret = "ValueError"

\* C8: the actual_deadline create_task stores is the given actual_deadline
\* if there is one, else the given suggested_deadline if there is one, else
\* the creation date plus 7 days (2024-01-22 for a creation on 2024-01-15).
C8_DeadlineResolution ==
    \A task_data \in TaskData :
        LET out == create_outcome(Here, task_data, TRUE, now)
            stored == out.st.tasks[nextId].actual_deadline
            actual == task_data.actual_deadline
            suggested == task_data.suggested_deadline
        IN  out.ret = "id" =>
                /\ Truthy(actual) => stored = actual
                /\ ~Truthy(actual) /\ Truthy(suggested) => stored = suggested
                /\ ~Truthy(actual) /\ ~Truthy(suggested) =>
                       /\ ParsesAsDate(stored)
                       /\ ymd2ord(Fields(stored)) = date(utcnow(now)) + 7
                       /\ date(utcnow(now)) = ymd2ord(<<2024, 1, 15>>)
                              => stored = <<"2", "0", "2", "4", "-", "0", "1",
                                            "-", "2", "2">>

\* a task created on 2024-01-15 without deadline fields is in the store
C8_Witness ==
    \E n \in DOMAIN tasks :
        tasks[n].actual_deadline
            = <<"2", "0", "2", "4", "-", "0", "1", "-", "2", "2">>

\* C9: when registering the reminders fails in create_task (the deadline
\* does not parse), create_task still returns the new id and the task is in
\* the store; whenever create_task persisted a task it returns its id.
C9_PersistenceIsCommit ==
    \A task_data \in TaskData, up \in BOOLEAN :
        LET out == create_outcome(Here, task_data, up, now)
            doc == task_doc(task_data, now)
        IN  /\ (up /\ ~IsBlank(task_data.task)
                   /\ ~ParsesAsDate(doc.actual_deadline)) =>
                   /\ out.ret = "id"
                   /\ out.rid = <<StrId(nextId)>>
                   /\ nextId \in DOMAIN out.st.tasks
                   /\ out.st.tasks[nextId] = doc
            /\ out.st.tasks # tasks => out.ret = "id"

\* a task whose deadline did not parse was created, with no job registered
C9_Witness ==
    \E task_data \in TaskData :
        LET out == create_outcome(Here, task_data, TRUE, now)
        IN  /\ ~ParsesAsDate(task_data.actual_deadline)
            /\ Truthy(task_data.actual_deadline)
            /\ out.ret = "id"
            /\ JobsOf(out.st.jobs, nextId) = {}
            /\ jobs # {}

\* the k-th smallest member of the set S of numbers
Kth(S, k) == CHOOSE i \in S : Cardinality({j \in S : j < i}) = k - 1

\* the items of a batch that create_task accepts
Accepted(items) ==
    {i \in 1..Len(items) : items[i].up /\ ~IsBlank(items[i].task)}

\* C10: create_tasks_from_action_items returns, in input order, one fresh id
\* for each item create_task accepts; each of them is stored with its own
\* item's data, an item that fails stores nothing and stops no later item,
\* and the tasks stored before are untouched.
C10_BatchIndependent ==
    \A items \in BatchInputs :
        LET out == batch_outcome(Here, items, <<>>, now)
            acc == Accepted(items)
            count == Cardinality(acc)
        IN  /\ Len(out.ret) = count
            /\ \A k \in 1..count :
                   /\ out.ret[k] = StrId(nextId + k - 1)
                   /\ out.st.tasks[nextId + k - 1]
                          = task_doc([task |-> items[Kth(acc, k)].task,
                                      assignee |-> Missing,
                                      priority |->
                                          items[Kth(acc, k)].priority,
                                      suggested_deadline |->
                                          items[Kth(acc, k)].suggested_deadline,
                                      actual_deadline |-> <<>>], now)
            /\ DOMAIN out.st.tasks = DOMAIN tasks \cup (nextId..(nextId + count - 1))
            /\ \A n \in DOMAIN tasks : out.st.tasks[n] = tasks[n]

\* a batch whose first item fails and whose later items are created, on a
\* store that holds a task
C10_Witness ==
    /\ tasks # <<>>
    /\ \E items \in BatchInputs :
           /\ Len(items) = MaxBatch
           /\ IsBlank(items[1].task)
           /\ Len(batch_outcome(Here, items, <<>>, now).ret) = MaxBatch - 1

\* the documents of a result list
Members(r) == {r[i] : i \in 1..Len(r)}

\* id names no document of the store: _id is an ObjectId, so a string id
\* names none, and an ObjectId names none once its document is gone
NotInStore(id) == id.t = "str" \/ id.n \notin DOMAIN tasks

\* C11: after delete_task(id) returned True, the task is in no result of
\* get_tasks for any filter, total_tasks of get_task_statistics is one
\* lower than before, get_task(id) is None, and every other task is as it was.
C11_DeletedTaskIsGone ==
    \A id \in TaskIds, up \in BOOLEAN :
        LET out == delete_outcome(Here, id, up)
        IN  out.ret = "True" =>
                /\ \A filters \in Filters :
                       \A r \in get_tasks(out.st.tasks, filters) :
                           id.n \notin Members(r)
                /\ get_task_statistics(out.st.tasks, now).total_tasks
                       = get_task_statistics(tasks, now).total_tasks - 1
                /\ get_task(out.st.tasks, id) = <<>>
                /\ DOMAIN out.st.tasks = DOMAIN tasks \ {id.n}
                /\ \A n \in DOMAIN out.st.tasks : out.st.tasks[n] = tasks[n]

\* two stored tasks, one of which delete_task removes
C11_Witness ==
    \E id \in TaskIds :
        /\ Cardinality(DOMAIN tasks) = 2
        /\ \E r \in get_tasks(tasks, <<>>) : id.n \in Members(r)
        /\ delete_outcome(Here, id, TRUE).ret = "True"
        /\ Cardinality(DOMAIN delete_outcome(Here, id, TRUE).st.tasks) = 1

\* C12: update_task, mark_task_in_progress and mark_task_completed on an id
\* that is not in the store return False, change no task and leave the
\* scheduler's jobs as they were, also when the patch holds actual_deadline.
C12_UpdateOfMissingIsNoOp ==
    \A id \in TaskIds, r \in StoreRuns :
        NotInStore(id) =>
            /\ \A updates \in Patches :
                   LET out == update_outcome(Here, id, updates,
                                             r.up1, r.up2, r.fresh, now)
                   IN  out.ret = "False" /\ out.st = Here
            /\ mark_in_progress_outcome(Here, id, r.up1, r.fresh, now)
                   = [st |-> Here, ret |-> "False"]
            /\ mark_completed_outcome(Here, id, r.up1, r.fresh, now)
                   = [st |-> Here, ret |-> "False"]

\* a deadline patch for an id that names no document while jobs are
\* registered under that id's keys
C12_Witness ==
    \E id \in TaskIds :
        /\ NotInStore(id)
        /\ JobsOf(jobs, id.n) # {}
        /\ update_outcome(Here, id, [actual_deadline |-> InTwoDays],
                          TRUE, TRUE, TRUE, now).ret = "False"

\* C13: delete_task on an id that is not in the store returns False and
\* leaves the store as it was, and the reminders of that id were cancelled
\* first: no job is left under its three keys, the other jobs are untouched.
C13_DeleteOfMissingStillCancels ==
    \A id \in TaskIds, up \in BOOLEAN :
        LET out == delete_outcome(Here, id, up)
        IN  NotInStore(id) =>
                /\ out.ret = "False"
                /\ out.st.tasks = tasks
                /\ JobsOf(out.st.jobs, id.n) = {}
                /\ out.st.jobs = jobs \ JobsOf(jobs, id.n)

\* an id that names no document but has jobs under its keys, which
\* delete_task removes
C13_Witness ==
    \E id \in TaskIds :
        /\ NotInStore(id)
        /\ JobsOf(jobs, id.n) # {}
        /\ delete_outcome(Here, id, TRUE).ret = "False"
        /\ delete_outcome(Here, id, TRUE).st.jobs = {}

\* what is expected of a fired reminder: the task the job was registered
\* for is in the store and open
OpenTask(n) == n \in DOMAIN tasks /\ tasks[n].status \in {"pending", "in_progress"}

\* C14: a reminder job that fires emits a reminder only if at that time its
\* task is in the store with status pending or in_progress; for a completed
\* or deleted task it emits nothing; firing changes no task.
C14_ReminderOnlyForOpenTask ==
    \A j \in jobs, up \in BOOLEAN :
        j.args # <<>> =>
            LET fired == send_task_reminder(tasks, j.args[1], up)
            IN  /\ fired.emitted => OpenTask(j.id[2])
                /\ ~OpenTask(j.id[2]) => ~fired.emitted
                /\ fired.tasks = tasks

\* a due reminder job, registered with the document's _id, whose task has
\* been completed since: it emits nothing
C14_Witness ==
    \E j \in jobs :
        /\ j.args # <<>>
        /\ j.run <= utcnow(now)
        /\ Matches(tasks, j.args[1])
        /\ tasks[j.id[2]].status = "completed"
        /\ ~send_task_reminder(tasks, j.args[1], TRUE).emitted

\* the kinds of job that are to be registered for the deadline string D at
\* time t
ExpectedKinds(D, t) ==
    LET deadline == ymd2ord(Fields(D)) * TicksPerDay
    IN  {"overdue_check"}
            \cup (IF deadline - TicksPerDay > utcnow(t)
                  THEN {"reminder_1day"} ELSE {})
            \cup (IF deadline \div TicksPerDay >= utcnow(t) \div TicksPerDay
                  THEN {"reminder_deadline"} ELSE {})

\* the jobs js hold for task n are one job for each of the kinds
ExactlyKinds(js, n, kinds) ==
    /\ {j.id : j \in JobsOf(js, n)} = {JobKey(k, n) : k \in kinds}
    /\ Cardinality(JobsOf(js, n)) = Cardinality(kinds)

\* C15: right after create_task, or after update_task rescheduled for a new
\* deadline, for a task whose deadline D is a date, the task's jobs are
\* exactly: reminder_1day iff D minus one day is after now, reminder_deadline
\* iff D's date is today or later, and overdue_check always.
C15_JobsMatchDeadline ==
    /\ \A task_data \in TaskData :
           LET out == create_outcome(Here, task_data, TRUE, now)
           IN  (out.ret = "id"
                   /\ ParsesAsDate(out.st.tasks[nextId].actual_deadline)) =>
                   ExactlyKinds(out.st.jobs, nextId,
                       ExpectedKinds(out.st.tasks[nextId].actual_deadline, now))
    /\ \A id \in TaskIds, d \in Deadlines :
           LET out == update_outcome(Here, id, [actual_deadline |-> d],
                                     TRUE, TRUE, TRUE, now)
           IN  (out.ret = "True" /\ ParsesAsDate(d)) =>
                   ExactlyKinds(out.st.jobs, id.n, ExpectedKinds(d, now))

\* a task with all three jobs whose deadline moves to a date for which only
\* the overdue check is registered
C15_Witness ==
    \E id \in TaskIds :
        LET out == update_outcome(Here, id, [actual_deadline |-> Yesterday],
                                  TRUE, TRUE, TRUE, now)
        IN  /\ Matches(tasks, id)
            /\ Cardinality(JobsOf(jobs, id.n)) = 3
            /\ out.ret = "True"
            /\ {j.id[1] : j \in JobsOf(out.st.jobs, id.n)} = {"overdue_check"}

\* the day of the deadline of task n, for a deadline that is a date
DeadlineDay(n) == ymd2ord(Fields(tasks[n].actual_deadline))

HasDate(n) == ParsesAsDate(tasks[n].actual_deadline)

\* C16: get_overdue_tasks returns exactly the stored tasks with status
\* pending or in_progress whose deadline is a day before today, earliest
\* deadline first; never a completed task, never a task due today.
C16_OverdueExactly ==
    \A r \in get_overdue_tasks(tasks, now) :
        /\ \A n \in DOMAIN tasks :
               HasDate(n) =>
                   (n \in Members(r) <=>
                       /\ tasks[n].status \in {"pending", "in_progress"}
                       /\ DeadlineDay(n) < date(utcnow(now)))
        /\ \A i \in 1..Len(r) : tasks[r[i]].status # "completed"
        /\ \A i, j \in 1..Len(r) :
               (i < j /\ HasDate(r[i]) /\ HasDate(r[j])) =>
                   DeadlineDay(r[i]) <= DeadlineDay(r[j])

\* C17: get_upcoming_tasks(days_ahead) returns exactly the stored tasks with
\* status pending or in_progress whose deadline is a day from today to
\* today plus days_ahead, both included, earliest deadline first.
C17_UpcomingExactly ==
    \A days_ahead \in DaysAhead :
        \A r \in get_upcoming_tasks(tasks, days_ahead, now) :
            /\ \A n \in DOMAIN tasks :
                   HasDate(n) =>
                       (n \in Members(r) <=>
                           /\ tasks[n].status \in {"pending", "in_progress"}
                           /\ DeadlineDay(n) >= date(utcnow(now))
                           /\ DeadlineDay(n) <= date(utcnow(now)) + days_ahead)
            /\ \A i, j \in 1..Len(r) :
                   (i < j /\ HasDate(r[i]) /\ HasDate(r[j])) =>
                       DeadlineDay(r[i]) <= DeadlineDay(r[j])

\* C18: in every reachable store, total_tasks of get_task_statistics equals
\* pending_tasks + in_progress_tasks + completed_tasks, and with no task
\* every field is zero.
C18_TotalIsSumOfStatuses ==
    LET stats == get_task_statistics(tasks, now)
    IN  /\ stats.total_tasks = stats.pending_tasks + stats.in_progress_tasks
                                   + stats.completed_tasks
        /\ tasks = <<>> => \A f \in DOMAIN stats : stats[f] = 0

\* C19: the priority of every task stored by a creation is high, medium
\* or low.
C19_PriorityIsNormalised ==
    \A n \in DOMAIN tasks :
        tasks[n].priority \in {<<"h", "i", "g", "h">>, Medium, <<"l", "o", "w">>}

\* C20 as stated: get_tasks returns exactly the tasks that match every field
\* of the filter (all tasks for an empty filter), and a task created later
\* always comes before one created earlier.
C20_LaterCreatedFirst ==
    \A filters \in Filters :
        \A r \in get_tasks(tasks, filters) :
            /\ Members(r) = {n \in DOMAIN tasks :
                                \A f \in DOMAIN filters : tasks[n][f] = filters[f]}
            /\ \A i, j \in 1..Len(r) : i < j => r[i] > r[j]

\* C20 amended: get_tasks returns exactly the tasks that match every field
\* of the filter (all tasks for an empty filter), each once, and a task with
\* a later created_at comes before one with an earlier created_at; tasks
\* with equal created_at come in either order.
C20_LaterStampFirst ==
    \A filters \in Filters :
        \A r \in get_tasks(tasks, filters) :
            /\ Members(r) = {n \in DOMAIN tasks :
                                \A f \in DOMAIN filters : tasks[n][f] = filters[f]}
            /\ Len(r) = Cardinality(Members(r))
            /\ \A i, j \in 1..Len(r) :
                   tasks[r[i]].created_at > tasks[r[j]].created_at => i < j

\* two tasks created at different times and one more result for a filter
\* that leaves a task out
C20_Witness ==
    /\ \E n, m \in DOMAIN tasks : tasks[n].created_at < tasks[m].created_at
    /\ \E r \in get_tasks(tasks, <<>>) : Len(r) = 2
    /\ \E r \in get_tasks(tasks, [status |-> "pending"]) : Len(r) = 1

\* the days the heuristic is to add, text by text, labelled by hand
DaysFor(text) ==
    CASE text = Asap -> 1
      [] text = NextWeek -> 3
      [] text = AsapNextWeek -> 1
      [] text = Plain -> 7

\* C21: the deadline heuristic returns the current date + 1 day for a text
\* with an urgent keyword, else + 3 days for a text with a medium keyword,
\* else + 7 days, a text with both getting + 1 day, and the result depends
\* on the text and the current date only: whatever the time of day, and for
\* the tasks of every processed meeting, whose stored deadline is the
\* suggested one. On 2024-01-15 "ASAP" gives 2024-01-16, "next week"
\* 2024-01-18 and a text with neither 2024-01-22.
C21_DeadlineHeuristic ==
    /\ \A text \in MeetingTexts :
           suggest_deadline(text, now)
               = strftime(timedelta(date(utcnow(now)) + DaysFor(text)))
    /\ date(utcnow(now)) = ymd2ord(StartDate)
           => /\ suggest_deadline(Asap, now)
                     = <<"2", "0", "2", "4", "-", "0", "1", "-", "1", "6">>
              /\ suggest_deadline(NextWeek, now)
                     = <<"2", "0", "2", "4", "-", "0", "1", "-", "1", "8">>
              /\ suggest_deadline(Plain, now)
                     = <<"2", "0", "2", "4", "-", "0", "1", "-", "2", "2">>
    /\ \A n \in DOMAIN tasks :
           tasks[n].actual_deadline
               = strftime(timedelta(date(tasks[n].created_at)
                                        + DaysFor(tasks[n].task)))

\* a stored task whose text has an urgent and a medium keyword, due the day
\* after the meeting was processed
C21_Witness ==
    \E n \in DOMAIN tasks :
        /\ tasks[n].task = AsapNextWeek
        /\ tasks[n].created_at > Epoch
        /\ tasks[n].actual_deadline
               = <<"2", "0", "2", "4", "-", "0", "1", "-", "1", "6">>

\* C22: cancelling reminders is idempotent and never raises: cancelling the
\* keys of a task a second time in a row changes nothing, cancelling keys
\* that were never registered, or are registered no longer, changes
\* nothing, and the jobs of the other tasks stay as they were.
C22_CancelIdempotent ==
    \A n \in 1..(cap + 1) :
        LET once == cancel_task_reminders(jobs, n)
        IN  /\ cancel_task_reminders(once, n) = once
            /\ JobsOf(jobs, n) = {} => once = jobs
            /\ \A m \in 1..cap : m # n => JobsOf(once, m) = JobsOf(jobs, m)

\* the reminders of the first task are cancelled, those of the second are
\* registered
C22_Witness ==
    /\ nextId > 2
    /\ JobsOf(jobs, 1) = {}
    /\ JobsOf(jobs, 2) # {}

\* C23: when the store is unreachable, create, update and delete hand the
\* store failure to their caller as an error: none of them ends with a
\* normal result such as False.
C23_StoreFailurePropagates ==
    \A id \in TaskIds :
        Matches(tasks, id) =>
            /\ \A task_data \in TaskData :
                   Truthy(task_doc(task_data, now).task)
                       => create_outcome(Here, task_data, FALSE, now).ret
                              = "RuntimeError"
            /\ \A updates \in Patches :
                   update_outcome(Here, id, updates, FALSE, TRUE, TRUE, now).ret
                       \notin {"True", "False"}
            /\ delete_outcome(Here, id, FALSE).ret \notin {"True", "False"}

\* C24: a registered reminder job that is due fires: processed by the
\* scheduler as soon as create_task has registered it, its callback is
\* called; and the processing of one job, whatever its callback does,
\* leaves every other job registered, and a recurring job registered for
\* its next run.
C24_RegisteredJobFires ==
    /\ \A task_data \in TaskData :
           LET out == create_outcome(Here, task_data, TRUE, now)
           IN  \A j \in out.st.jobs \ jobs :
                   j.run <= utcnow(now)
                       => process_job(out.st.jobs, j, now).ran
    /\ \A j \in jobs :
           LET after == process_job(jobs, j, now).jobs
           IN  /\ jobs \ {j} \subseteq after
               /\ j.id[1] = "overdue_check"
                      => \E k \in after : k.id = j.id /\ k.run > j.run

\* C28: a status change leaves the job set of the scheduler unchanged:
\* after mark_task_in_progress, mark_task_completed or an update_task whose
\* patch has no actual_deadline, whatever the id and however the store
\* calls go, the registered jobs and their trigger times are the ones
\* before; and create_task cancels nothing either, which leaves deletion
\* and a deadline change as the calls that cancel.
C28_StatusChangeKeepsJobs ==
    /\ \A id \in TaskIds, r \in StoreRuns :
           /\ \A updates \in Patches :
                  "actual_deadline" \notin DOMAIN updates
                      => update_outcome(Here, id, updates, r.up1, r.up2,
                                        r.fresh, now).st.jobs = jobs
           /\ mark_completed_outcome(Here, id, r.up1, r.fresh, now).st.jobs
                  = jobs
           /\ mark_in_progress_outcome(Here, id, r.up1, r.fresh, now).st.jobs
                  = jobs
    /\ \A task_data \in TaskData, up \in BOOLEAN :
           jobs \subseteq create_outcome(Here, task_data, up, now).st.jobs

\* a completed task with its overdue check and a reminder registered, at a
\* time after its creation
C28_Witness ==
    \E n \in DOMAIN tasks :
        /\ tasks[n].status = "completed"
        /\ utcnow(now) > tasks[n].created_at
        /\ Cardinality(JobsOf(jobs, n)) >= 2

\* C29: delete_transcript cancels the reminder jobs of the tasks it
\* removes: after it has removed the tasks of a transcript, no job keyed to
\* one of them is registered.
C29_TranscriptDeleteCancels ==
    \A transcript_id \in TranscriptIds :
        LET out == delete_transcript_outcome(Here, transcript_id, TRUE)
        IN  \A n \in DOMAIN tasks \ DOMAIN out.st.tasks :
                JobsOf(out.st.jobs, n) = {}

\* C30: a delete_task that fails in the store for a task that exists
\* reports failure and leaves the task stored and its reminder jobs
\* registered as before the call.
C30_FailedDeleteChangesNothing ==
    \A id \in TaskIds :
        Matches(tasks, id) =>
            LET out == delete_outcome(Here, id, FALSE)
            IN  /\ out.ret = "False"
                /\ out.st.tasks = tasks
                /\ out.st.jobs = jobs

\* C25: with delete_task running concurrently with create_task or with a
\* deadline update_task on the same task, once all calls have returned no
\* reminder job is registered for a task that is not in the store.
C25_NoDanglingJobAfterRace ==
    (\A th \in Threads : Free(th))
        => \A j \in jobs : j.id[2] \in DOMAIN tasks

\* C26: once two concurrent update_task calls that set different deadlines
\* on the same task have both returned, the reminder jobs of the task are
\* the ones derived from the deadline that is stored.
C26_JobsFollowLastWrite ==
    LET a == calls["t1"]
        b == calls["t2"]
    IN  (/\ \A c \in {a, b} :
                /\ c.op = "update_task"
                /\ c.pc = "done"
                /\ c.ret = "True"
                /\ "actual_deadline" \in DOMAIN c.updates
         /\ a.n = b.n
         /\ a.updates # b.updates
         /\ a.n \in DOMAIN tasks)
            => JobsOf(jobs, a.n)
                   = schedule_task_reminders({}, Oid(a.n),
                                             tasks[a.n].actual_deadline,
                                             now).jobs

\* C27: the result of a get_task_statistics that ran concurrently with
\* creates, status changes and deletes has total_tasks = pending_tasks +
\* in_progress_tasks + completed_tasks.
C27_StatisticsConsistentUnderWrites ==
    \A th \in Threads :
        LET c == calls[th]
        IN  (c.op = "get_task_statistics" /\ c.pc = "done")
                => c.counts[1] = c.counts[2] + c.counts[3] + c.counts[4]
====
